---- MODULE Spec2Model ----
(***************************************************************************)
(* A model of outfit: the Wardrobe recorder and its queries                *)
(* (outfit/wardrobe.py), the peewee tables it writes (outfit/models.py)    *)
(* and the RunGroup cohort object (outfit/utils.py).                       *)
(*                                                                         *)
(* Conventions.                                                            *)
(*  - A table is the sequence of its rows in insertion order; the          *)
(*    AutoField primary key of a row is its position.                      *)
(*  - Parameter names and parameter values are Python strings that the     *)
(*    code concatenates, sorts and formats, so they are modelled as        *)
(*    sequences of character codes ("lr" is <<108, 114>>).  Experiment     *)
(*    names, score types, output types and paths are only compared for     *)
(*    equality and are TLA+ strings.                                       *)
(*  - A Python value given to add_parameter (typed Any) is a record        *)
(*    [t |-> "str", v |-> codes] or [t |-> "int", v |-> n].                *)
(*  - Scores are floats in the code; the model uses integers and keeps a   *)
(*    mean as the exact fraction [num, den].                               *)
(*  - The Feature table is left out: outfit/models.py defines no Feature   *)
(*    model and create_database creates no table for it.                   *)
(***************************************************************************)
EXTENDS Integers, Sequences, FiniteSets, TLC

VARIABLES
    Experiment,   \* table Experiment
    Parameter,    \* table Parameter
    Output,       \* table Output
    Score,        \* table Score
    experiment,   \* Wardrobe.experiment: id of the experiment in progress, or None
    parameter,    \* Wardrobe.parameter: buffered Parameter rows
    output,       \* Wardrobe.output: buffered Output rows
    score,        \* Wardrobe.score: buffered Score rows
    committed,    \* history: ids of the experiments whose tidy() has returned
    added,        \* history: per experiment id, the arguments of its add-* calls
    op,           \* the last call: its name and arguments (of an add-*: how many items)
    err,          \* the exception the last call raised, or "none"
    queries,      \* number of queries the last call ran against the store
    ranked,       \* get_best_scores: ids of the Score rows its query selected
    best,         \* get_best_scores: the records it yielded
    cohorts,      \* plot_by_param: the RunGroups it yielded
    series        \* RunGroup.plot: whether it plotted, and the points it plotted

vars == <<Experiment, Parameter, Output, Score, experiment, parameter, output,
          score, committed, added, op, err, queries, ranked, best, cohorts, series>>

store == <<Experiment, Parameter, Output, Score>>
buffers == <<parameter, output, score>>
results == <<ranked, best, cohorts, series>>

None == 0

(***************************************************************************)
(* Bounds of the model.                                                    *)
(***************************************************************************)
MaxExperiments == 2
MaxRows == 3
MaxDict == 2
MaxScores == 3

(***************************************************************************)
(* Python strings as sequences of character codes.                         *)
(***************************************************************************)
Underscore == <<95>>
lr == <<108, 114>>
depth == <<100, 101, 112, 116, 104>>
wd == <<119, 100>>
exp_name == <<101, 120, 112, 95, 110, 97, 109, 101>>

S1 == <<49>>
S10 == <<49, 48>>
S2 == <<50>>

\* str.__lt__: comparison by code point, a proper prefix first
RECURSIVE StrLess(_, _)
StrLess(a, b) ==
    IF b = <<>> THEN FALSE
    ELSE IF a = <<>> THEN TRUE
    ELSE IF Head(a) # Head(b) THEN Head(a) < Head(b)
    ELSE StrLess(Tail(a), Tail(b))

\* `sub in s` for strings
Contains(s, sub) ==
    \E i \in 0..(Len(s) - Len(sub)) : SubSeq(s, i + 1, i + Len(sub)) = sub

\* str(n) of an int: its decimal digits, '-' first when negative
RECURSIVE Digits(_)
Digits(n) ==
    IF n < 10 THEN <<48 + n>> ELSE Digits(n \div 10) \o <<48 + (n % 10)>>

Str(n) == IF n < 0 THEN <<45>> \o Digits(-n) ELSE Digits(n)

PyStr(s) == [t |-> "str", v |-> s]
PyInt(n) == [t |-> "int", v |-> n]

\* sorted(S) of a set of strings
RECURSIVE Sorted(_)
Sorted(S) ==
    IF S = {} THEN <<>>
    ELSE LET m == CHOOSE x \in S : \A y \in S : y = x \/ StrLess(x, y)
         IN  <<m>> \o Sorted(S \ {m})

(***************************************************************************)
(* outfit/models.py: how the fields store what they are given.             *)
(***************************************************************************)
\* CharField: a value that is not text is stored as its str()
CharFieldAdapt(value) == IF value.t = "str" THEN value.v ELSE Str(value.v)

\* (mutant) the foreign key declared null=True
ForeignKeyNullable(exp) == TRUE

\* A ForeignKeyField (null=False) to Experiment rejects NULL
ForeignKeyOk(exp) == exp # None

Range(s) == {s[i] : i \in DOMAIN s}

(***************************************************************************)
(* The arguments the calls are given.                                      *)
(***************************************************************************)
ExperimentNames == {"Mnist"}
ParameterNames == {lr}
ParameterValues == {PyStr(S2), PyInt(10)}
OutputTypes == {"model"}
OutputPaths == {"/x"}
ScoreTypes == {"acc"}
ScoreValues == {1}
Modes == {"min", "max", "best"}
DefaultLimit == {-1}

\* the dicts of at most MaxDict items, as the sequence of their items in
\* insertion order (the order dict.items() iterates in)
Dicts(Keys, Values) ==
    UNION {{d \in [1..n -> Keys \X Values] :
               \A i, j \in 1..n : i # j => d[i][1] # d[j][1]} : n \in 0..MaxDict}

\* the child rows the store holds
Rows == Len(Parameter) + Len(Output) + Len(Score)

NoSeries == [plotted |-> FALSE, points |-> <<>>]

NoAdded == [parameter |-> <<>>, output |-> <<>>, score |-> <<>>]

Call(name, args) == [name |-> name, args |-> args]

NoResults ==
    /\ ranked' = <<>>
    /\ best' = <<>>
    /\ cohorts' = <<>>
    /\ series' = NoSeries

\* a call that raises before it changes anything
Raise(call, exception) ==
    /\ op' = call
    /\ err' = exception
    /\ queries' = 0
    /\ NoResults
    /\ UNCHANGED <<store, experiment, buffers, committed, added>>

(***************************************************************************)
(* Wardrobe.__init__ on a path that is no file: create_database makes the  *)
(* four tables, empty.                                                     *)
(***************************************************************************)
Init ==
    /\ Experiment = <<>>
    /\ Parameter = <<>>
    /\ Output = <<>>
    /\ Score = <<>>
    /\ experiment = None
    /\ parameter = <<>>
    /\ output = <<>>
    /\ score = <<>>
    /\ committed = {}
    /\ added = <<>>
    /\ op = Call("__init__", <<>>)
    /\ err = "none"
    /\ queries = 0
    /\ ranked = <<>>
    /\ best = <<>>
    /\ cohorts = <<>>
    /\ series = NoSeries

(***************************************************************************)
(* The Recorder.  Model.create(...) builds the instance and saves it with  *)
(* force_insert: the row is in its table when create returns.              *)
(***************************************************************************)
add_experiment(experiment_name) ==
    /\ Len(Experiment) < MaxExperiments
    /\ LET id == Len(Experiment) + 1
       IN  /\ Experiment' = Append(Experiment,
                 [id_experiment |-> id, experiment_name |-> experiment_name])
           /\ experiment' = id
           /\ added' = Append(added, NoAdded)
    /\ op' = Call("add_experiment", <<>>)
    /\ err' = "none"
    /\ queries' = 0
    /\ NoResults
    /\ UNCHANGED <<Parameter, Output, Score, buffers, committed>>

\* the rows Parameter.create makes of the items of d for the experiment exp
ParameterRows(d, exp) ==
    [i \in 1..Len(d) |->
        [id_parameter |-> Len(Parameter) + i,
         parameter_name |-> d[i][1],
         parameter |-> CharFieldAdapt(d[i][2]),
         experiment |-> exp]]

OutputRows(d, exp) ==
    [i \in 1..Len(d) |->
        [id_output |-> Len(Output) + i,
         type_output |-> d[i][1],
         path_output |-> d[i][2],
         experiment |-> exp]]

ScoreRows(d, exp) ==
    [i \in 1..Len(d) |->
        [id_score |-> Len(Score) + i,
         type_score |-> d[i][1],
         score |-> d[i][2],
         experiment |-> exp]]

\* what the add-* calls of one experiment were given, in call order
AddedTo(field, d) ==
    IF experiment \notin DOMAIN added THEN added
    ELSE [added EXCEPT ![experiment] =
            [added[experiment] EXCEPT ![field] = added[experiment][field] \o d]]

\* add_dict_parameter: one add_parameter per item; the first create of a row
\* with no experiment raises and ends the loop
AddParameters(call, d) ==
    IF d # <<>> /\ ~ForeignKeyOk(experiment)
    THEN Raise(call, "IntegrityError")
    ELSE /\ Rows + Len(d) <= MaxRows
         /\ Parameter' = Parameter \o ParameterRows(d, experiment)
         /\ parameter' = parameter \o ParameterRows(d, experiment)
         /\ added' = IF d = <<>> THEN added ELSE AddedTo("parameter", d)
         /\ op' = call
         /\ err' = "none"
         /\ queries' = 0
         /\ NoResults
         /\ UNCHANGED <<Experiment, Output, Score, experiment, output, score,
                        committed>>

AddOutputs(call, d) ==
    IF d # <<>> /\ ~ForeignKeyOk(experiment)
    THEN Raise(call, "IntegrityError")
    ELSE /\ Rows + Len(d) <= MaxRows
         /\ Output' = Output \o OutputRows(d, experiment)
         /\ output' = output \o OutputRows(d, experiment)
         /\ added' = IF d = <<>> THEN added ELSE AddedTo("output", d)
         /\ op' = call
         /\ err' = "none"
         /\ queries' = 0
         /\ NoResults
         /\ UNCHANGED <<Experiment, Parameter, Score, experiment, parameter,
                        score, committed>>

AddScores(call, d) ==
    IF d # <<>> /\ ~ForeignKeyOk(experiment)
    THEN Raise(call, "IntegrityError")
    ELSE /\ Rows + Len(d) <= MaxRows
         /\ Score' = Score \o ScoreRows(d, experiment)
         /\ score' = score \o ScoreRows(d, experiment)
         /\ added' = IF d = <<>> THEN added ELSE AddedTo("score", d)
         /\ op' = call
         /\ err' = "none"
         /\ queries' = 0
         /\ NoResults
         /\ UNCHANGED <<Experiment, Parameter, Output, experiment, parameter,
                        output, committed>>

add_output(type_output, path_output) ==
    AddOutputs(Call("add_output", <<1>>),
               <<<<type_output, path_output>>>>)

add_parameter(parameter_name, value) ==
    AddParameters(Call("add_parameter", <<1>>),
                  <<<<parameter_name, value>>>>)

add_score(type_score, value) ==
    AddScores(Call("add_score", <<1>>),
              <<<<type_score, value>>>>)

add_dict_score(dict_score) ==
    AddScores(Call("add_dict_score", <<Len(dict_score)>>), dict_score)

add_dict_parameter(dict_parameter) ==
    AddParameters(Call("add_dict_parameter", <<Len(dict_parameter)>>), dict_parameter)

add_dict_output(dict_output) ==
    AddOutputs(Call("add_dict_output", <<Len(dict_output)>>), dict_output)

\* tidy: `row.insert()` calls the classmethod Model.insert, which builds an
\* INSERT query and returns it; nothing executes it, so no table changes.
\* With no experiment, None.insert raises AttributeError at the first line.
tidy ==
    IF experiment = None
    THEN Raise(Call("tidy", <<>>), "AttributeError")
    ELSE /\ parameter' = <<>>
         /\ score' = <<>>
         /\ output' = <<>>
         /\ experiment' = None
         /\ committed' = committed \cup {experiment}
         /\ op' = Call("tidy", <<>>)
         /\ err' = "none"
         /\ queries' = 0
         /\ NoResults
         /\ UNCHANGED <<store, added>>

(***************************************************************************)
(* The Ranker: Wardrobe.get_best_scores, consumed to its end.              *)
(***************************************************************************)
\* (mutant) any mode that is not 'min' taken as 'max'
ModeOrderingElseMax(mode) == IF mode = "min" THEN "asc" ELSE "desc"

\* the ordering the mode selects; any other mode raises ValueError
ModeOrdering(mode) ==
    IF mode = "min" THEN "asc"
    ELSE IF mode = "max" THEN "desc"
    ELSE "ValueError"

\* (mutant) the ordering ignored: always ascending
FirstAscending(r, S, ordering) == \A q \in S : r.score <= q.score

\* r may come first among the rows S under ORDER BY score
First(r, S, ordering) ==
    \A q \in S : IF ordering = "asc" THEN r.score <= q.score
                 ELSE r.score >= q.score

\* every order the store may return the rows S in: ORDER BY fixes the order
\* of rows of different score only
RECURSIVE Orders(_, _)
Orders(S, ordering) ==
    IF S = {} THEN {<<>>}
    ELSE UNION {{<<r>> \o rest : rest \in Orders(S \ {r}, ordering)} :
                  r \in {q \in S : First(q, S, ordering)}}

OrderBy(rows, ordering) == Orders(Range(rows), ordering)

\* (mutant) a limit of 0 taken for no limit, as a test `if limit:` would
LimitFalsy(s, n) ==
    IF n <= 0 THEN s
    ELSE SubSeq(s, 1, IF n < Len(s) THEN n ELSE Len(s))

\* LIMIT n of SQLite: a negative n is no limit
Limit(s, n) ==
    IF n < 0 THEN s
    ELSE SubSeq(s, 1, IF n < Len(s) THEN n ELSE Len(s))

\* Score.select(Score.experiment).where(Score.type_score == on_score); a
\* select().where(...) is the matching rows in table order
ScoresOfType(on_score) ==
    LET OfType(r) == r.type_score = on_score
    IN  SelectSeq(Score, OfType)

\* (mutant) the where clause left out
ParametersOfAny(id) == Parameter

\* table.select().where(table.experiment == id), one per child table
ParametersOf(id) ==
    LET Mine(r) == r.experiment = id
    IN  SelectSeq(Parameter, Mine)

OutputsOf(id) ==
    LET Mine(r) == r.experiment = id
    IN  SelectSeq(Output, Mine)

ScoresOf(id) ==
    LET Mine(r) == r.experiment = id
    IN  SelectSeq(Score, Mine)

ExperimentOf(id) ==
    LET Mine(r) == r.id_experiment = id
    IN  SelectSeq(Experiment, Mine)

\* the dict `best` of one selected score row
Record(val) ==
    [Experiment |-> ExperimentOf(val.experiment),
     Parameter |-> ParametersOf(val.experiment),
     Output |-> OutputsOf(val.experiment),
     Score |-> ScoresOf(val.experiment)]

get_best_scores(mode, on_score, n_best) ==
    LET call == Call("get_best_scores", <<mode, on_score, n_best>>)
    IN  IF ModeOrdering(mode) = "ValueError"
        THEN Raise(call, "ValueError")
        ELSE \E rows \in OrderBy(ScoresOfType(on_score), ModeOrdering(mode)) :
                LET query == Limit(rows, n_best)
                IN  /\ ranked' = [i \in 1..Len(query) |-> query[i].id_score]
                    /\ best' = [i \in 1..Len(query) |-> Record(query[i])]
                    /\ queries' = 1 + 4 * Len(query)
                    /\ op' = call
                    /\ err' = "none"
                    /\ cohorts' = <<>>
                    /\ series' = NoSeries
                    /\ UNCHANGED <<store, experiment, buffers, committed, added>>

Next ==
    \/ \E n \in ExperimentNames : add_experiment(n)
    \/ \E n \in ParameterNames, v \in ParameterValues : add_parameter(n, v)
    \/ \E t \in OutputTypes, p \in OutputPaths : add_output(t, p)
    \/ \E t \in ScoreTypes, v \in ScoreValues : add_score(t, v)
    \/ \E d \in Dicts(ParameterNames, ParameterValues) : add_dict_parameter(d)
    \/ \E d \in Dicts(OutputTypes, OutputPaths) : add_dict_output(d)
    \/ \E d \in Dicts(ScoreTypes, ScoreValues) : add_dict_score(d)
    \/ tidy
    \/ \E m \in Modes, t \in ScoreTypes, n \in DefaultLimit :
          get_best_scores(m, t, n)

\* A Wardrobe on a new database, recording and querying
Spec == Init /\ [][Next]_vars

(***************************************************************************)
(* The Ranker on an existing database: Wardrobe.__init__ on a path that is *)
(* a file opens it as it is.  The stores are those earlier sessions leave: *)
(* ids are assigned in insertion order, so the experiment ids of a table's *)
(* rows never decrease.                                                    *)
(***************************************************************************)
RankTypes == {"acc", "loss"}
RankValues == {1, 2}
Limits == (-2)..MaxScores
OnScores == {"acc"}

ScoreTables(n) ==
    UNION {{[i \in 1..k |-> [id_score |-> i, type_score |-> f[i][1],
                             score |-> f[i][2], experiment |-> f[i][3]]] :
              f \in {g \in [1..k -> RankTypes \X RankValues \X (1..n)] :
                       \A i, j \in 1..k : i < j => g[i][3] <= g[j][3]}} :
           k \in 0..MaxScores}

InitRanker ==
    /\ \E n \in {2} :
          /\ Experiment = [i \in 1..n |->
                 [id_experiment |-> i, experiment_name |-> "Mnist"]]
          /\ Score \in ScoreTables(n)
          /\ committed = 1..n
          /\ added = [i \in 1..n |-> NoAdded]
    /\ Parameter = <<>>
    /\ Output = <<>>
    /\ experiment = None
    /\ parameter = <<>>
    /\ output = <<>>
    /\ score = <<>>
    /\ op = Call("__init__", <<>>)
    /\ err = "none"
    /\ queries = 0
    /\ ranked = <<>>
    /\ best = <<>>
    /\ cohorts = <<>>
    /\ series = NoSeries

NextRanker ==
    \E m \in Modes, t \in OnScores, n \in Limits : get_best_scores(m, t, n)

SpecRanker == InitRanker /\ [][NextRanker]_vars

(***************************************************************************)
(* The Cohort Builder: Wardrobe.plot_by_param, consumed to its end.        *)
(*                                                                         *)
(* A DataFrame is [columns, rows]: `columns` the parameter columns in      *)
(* order (every frame here also has id_experiment, experiment_name and     *)
(* score), `rows` its rows in order, each with the cells of the parameter  *)
(* columns in `cell`.  Where SQL leaves a row order open the model takes   *)
(* table order (joins) and sorted order (GROUP BY); the order only sets    *)
(* the order of rows within a cohort and of the cohorts yielded.           *)
(***************************************************************************)
Y == <<95, 121>>

RECURSIVE Flatten(_)
\* the concatenation of a sequence of sequences
Flatten(ss) == IF ss = <<>> THEN <<>> ELSE Head(ss) \o Flatten(Tail(ss))

\* set(df.parameter_name) of Parameter.select(Parameter.parameter_name)
RecordedNames == {r.parameter_name : r \in Range(Parameter)}

\* the exception _get_params raises: df.parameter_name of a frame with no
\* column, set.remove of a name that is not in the set
GetParamsError(on_param) ==
    IF Parameter = <<>> THEN "AttributeError"
    ELSE IF on_param \notin RecordedNames THEN "KeyError"
    ELSE IF exp_name \notin RecordedNames THEN "KeyError"
    ELSE "none"

_get_params(on_param) == RecordedNames \ {on_param, exp_name}

\* the rows of Score join Parameter join Experiment for one score row
JoinedRows(s) ==
    LET ps == ParametersOf(s.experiment)
    IN  [j \in 1..Len(ps) |->
            [id_experiment |-> s.experiment,
             experiment_name |-> Experiment[s.experiment].experiment_name,
             parameter_name |-> ps[j].parameter_name,
             parameter |-> ps[j].parameter,
             score |-> s.score]]

\* all_exp_df; indexing its columns raises KeyError when the join is empty
_get_experiments_score(on_score) ==
    LET ss == ScoresOfType(on_score)
    IN  Flatten([i \in 1..Len(ss) |-> JoinedRows(ss[i])])

\* the values recorded for the parameter p (... group_by(Parameter.parameter))
ValuesOf(p) ==
    Sorted({r.parameter : r \in {q \in Range(Parameter) : q.parameter_name = p}})

RECURSIVE Product(_)
\* it.product(*lists), in its order: the last list varies fastest
Product(lists) ==
    IF lists = <<>> THEN << <<>> >>
    ELSE LET rest == Product(Tail(lists))
             h == Head(lists)
         IN  Flatten([i \in 1..Len(h) |->
                         [j \in 1..Len(rest) |-> <<h[i]>> \o rest[j]]])

\* allNames and the combinations, each a tuple of values aligned with allNames
AllNames(params) == Sorted(params)

_get_parameters_combinations(params) ==
    LET allNames == AllNames(params)
    IN  Product([i \in 1..Len(allNames) |-> ValuesOf(allNames[i])])

\* df__: the rows of all_exp_df with parameter k of value v, and a column k
Filtered(all_exp_df, k, v) ==
    LET Match(r) == r.parameter_name = k /\ r.parameter = v
        sel == SelectSeq(all_exp_df, Match)
    IN  [columns |-> <<k>>,
         rows |-> [i \in 1..Len(sel) |->
                     [id_experiment |-> sel[i].id_experiment,
                      experiment_name |-> sel[i].experiment_name,
                      score |-> sel[i].score,
                      cell |-> (k :> v)]]]

\* the columns df_.drop leaves: those whose name does not contain '_y'
KeptColumns(columns) ==
    LET Keep(c) == ~Contains(c, Y)
    IN  SelectSeq(columns, Keep)

\* pd.merge(left, right, on='id_experiment', how='inner', suffixes=('', '_y'))
\* followed by the drop of the '_y' columns: the pairs of rows of equal
\* id_experiment in left order, with left's experiment_name and score
Merged(left, right) ==
    LET columns == KeptColumns(left.columns \o right.columns)
        Pairs(l) ==
            LET Same(r) == r.id_experiment = l.id_experiment
                rs == SelectSeq(right.rows, Same)
            IN  [j \in 1..Len(rs) |->
                    [id_experiment |-> l.id_experiment,
                     experiment_name |-> l.experiment_name,
                     score |-> l.score,
                     cell |-> [c \in Range(columns) |->
                                 IF c \in DOMAIN l.cell THEN l.cell[c]
                                 ELSE rs[j].cell[c]]]]
    IN  [columns |-> columns,
         rows |-> Flatten([i \in 1..Len(left.rows) |-> Pairs(left.rows[i])])]

\* the rows of the query for on_param of one experiment
OnParamRows(id, on_param) ==
    LET Hit(r) == r.experiment = id /\ r.parameter_name = on_param
    IN  SelectSeq(Parameter, Hit)

\* df_ with the on_param value of each row's experiment set in column on_param
WithOnParam(df, on_param) ==
    LET columns == IF on_param \in Range(df.columns) THEN df.columns
                   ELSE Append(df.columns, on_param)
    IN  [columns |-> columns,
         rows |-> [i \in 1..Len(df.rows) |->
                     [df.rows[i] EXCEPT !.cell =
                         [c \in Range(columns) |->
                             IF c = on_param
                             THEN OnParamRows(df.rows[i].id_experiment,
                                              on_param)[1].parameter
                             ELSE df.rows[i].cell[c]]]]]

NoneDf == [columns |-> <<>>, rows |-> <<>>]

RECURSIVE MergeFrom(_, _, _, _)
\* _merge_df_from_combinations from the i-th frame of df_list on, with
\* df_final as `acc`: [none, df, err, n], n the lookups run.  df_final is
\* assigned in the loop over the rows of df_, so an empty df_ leaves it as
\* it was; next(iter(res)) of an empty result raises StopIteration.
MergeFrom(acc, df_list, i, on_param) ==
    IF i > Len(df_list) \/ acc.err # "none" THEN acc
    ELSE IF acc.none
    THEN MergeFrom([acc EXCEPT !.none = FALSE, !.df = df_list[i]],
                   df_list, i + 1, on_param)
    ELSE LET df_ == Merged(acc.df, df_list[i])
             missing == {j \in 1..Len(df_.rows) :
                           OnParamRows(df_.rows[j].id_experiment, on_param) = <<>>}
         IN  IF df_.rows = <<>>
             THEN MergeFrom(acc, df_list, i + 1, on_param)
             ELSE IF missing # {}
             THEN [acc EXCEPT !.err = "StopIteration",
                              !.n = acc.n + (CHOOSE j \in missing :
                                                \A k \in missing : j <= k)]
             ELSE MergeFrom([acc EXCEPT !.df = WithOnParam(df_, on_param),
                                        !.n = acc.n + Len(df_.rows)],
                            df_list, i + 1, on_param)

_merge_df_from_combinations(df_list, on_param) ==
    MergeFrom([none |-> TRUE, df |-> NoneDf, err |-> "none", n |-> 0],
              df_list, 1, on_param)

\* the columns RunGroup.__init__ makes attributes of
AttrColumns(df, on_param) == {c \in Range(df.columns) : c # on_param}

\* the exception RunGroup.__init__ raises: None has no columns, and
\* list(df[column])[0] of a frame with no row has no item 0
RunGroupError(merged, on_param) ==
    IF merged.none THEN "AttributeError"
    ELSE IF merged.df.rows = <<>> /\ AttrColumns(merged.df, on_param) # {}
    THEN "IndexError"
    ELSE "none"

RunGroup(df, on_param) ==
    [df |-> df,
     on_param |-> on_param,
     attrs |-> [c \in AttrColumns(df, on_param) |-> df.rows[1].cell[c]]]

RECURSIVE Yielded(_, _, _, _, _, _)
\* the loop of plot_by_param from the i-th combination on: [cohorts, err, n]
Yielded(acc, combinations, i, allNames, all_exp_df, on_param) ==
    IF i > Len(combinations) THEN acc
    ELSE LET comb == combinations[i]
             dfs == [j \in 1..Len(allNames) |->
                        Filtered(all_exp_df, allNames[j], comb[j])]
             merged == _merge_df_from_combinations(dfs, on_param)
             n == acc.n + merged.n
         IN  IF merged.err # "none"
             THEN [acc EXCEPT !.err = merged.err, !.n = n]
             ELSE IF RunGroupError(merged, on_param) # "none"
             THEN [acc EXCEPT !.err = RunGroupError(merged, on_param), !.n = n]
             ELSE Yielded([acc EXCEPT !.cohorts = Append(acc.cohorts,
                                          RunGroup(merged.df, on_param)),
                                      !.n = n],
                          combinations, i + 1, allNames, all_exp_df, on_param)

\* what a StopIteration raised inside the generator becomes: RuntimeError
\* from Python 3.7 on, the silent end of the generator before (setup.py
\* allows Python >= 3.5)
Surfaced(exception) ==
    IF exception = "StopIteration" THEN {"RuntimeError", "none"}
    ELSE {exception}

plot_by_param(on_param, on_score) ==
    LET call == Call("plot_by_param", <<on_param, on_score>>)
        params == _get_params(on_param)
        all_exp_df == _get_experiments_score(on_score)
        run == Yielded([cohorts |-> <<>>, err |-> "none", n |-> 0],
                       _get_parameters_combinations(params), 1,
                       AllNames(params), all_exp_df, on_param)
    IN  /\ op' = call
        /\ ranked' = <<>>
        /\ best' = <<>>
        /\ series' = NoSeries
        /\ UNCHANGED <<store, experiment, buffers, committed, added>>
        /\ IF GetParamsError(on_param) # "none"
           THEN /\ err' = GetParamsError(on_param)
                /\ queries' = 1
                /\ cohorts' = <<>>
           ELSE IF all_exp_df = <<>>
           THEN /\ err' = "KeyError"
                /\ queries' = 2
                /\ cohorts' = <<>>
           ELSE /\ err' \in Surfaced(run.err)
                /\ queries' = 2 + Cardinality(params) + run.n
                /\ cohorts' = run.cohorts

(***************************************************************************)
(* The Cohort Summarizer: RunGroup.plot.                                   *)
(***************************************************************************)
RECURSIVE Sum(_)
Sum(xs) == IF xs = <<>> THEN 0 ELSE Head(xs) + Sum(Tail(xs))

\* (mutant) the last score of a label kept in place of the mean
LastScore(xs) == [num |-> xs[Len(xs)], den |-> 1]

\* statistics.mean, as the fraction num / den
Mean(xs) == [num |-> Sum(xs), den |-> Len(xs)]

RECURSIVE StableSort(_)
\* sorted(pairs, key=lambda x: x[0]): by name, pairs of equal name in their
\* order in `pairs`
StableSort(pairs) ==
    IF pairs = <<>> THEN <<>>
    ELSE LET i == CHOOSE k \in 1..Len(pairs) :
                     /\ \A j \in 1..Len(pairs) : ~StrLess(pairs[j][1], pairs[k][1])
                     /\ \A j \in 1..(k - 1) : pairs[j][1] # pairs[k][1]
         IN  <<pairs[i]>> \o
             StableSort(SubSeq(pairs, 1, i - 1) \o SubSeq(pairs, i + 1, Len(pairs)))

RECURSIVE Grouped(_, _)
\* res_dict after the pairs from the i-th on: its items in insertion order,
\* res_dict.setdefault(name, []).append(score)
Grouped(res_dict, pairs) ==
    IF pairs = <<>> THEN res_dict
    ELSE LET name == Head(pairs)[1]
             at == {k \in 1..Len(res_dict) : res_dict[k][1] = name}
         IN  IF at = {}
             THEN Grouped(Append(res_dict, <<name, <<Head(pairs)[2]>> >>), Tail(pairs))
             ELSE LET k == CHOOSE x \in at : TRUE
                  IN  Grouped([res_dict EXCEPT ![k] =
                                  <<name, Append(res_dict[k][2], Head(pairs)[2])>>],
                              Tail(pairs))

\* names[i]: self.on_param + "_" + p
Label(on_param, p) == on_param \o Underscore \o p

\* the (names, scores) handed to plt.plot
Plotted(group) ==
    LET rows == group.df.rows
        pairs == [i \in 1..Len(rows) |->
                    <<Label(group.on_param, rows[i].cell[group.on_param]),
                      rows[i].score>>]
        res_dict == Grouped(<<>>, StableSort(pairs))
    IN  [i \in 1..Len(res_dict) |->
            [name |-> res_dict[i][1], score |-> Mean(res_dict[i][2])]]

\* plot of the i-th yielded RunGroup
plot(i) ==
    LET group == cohorts[i]
    IN  /\ op' = Call("plot", <<i>>)
        /\ queries' = 0
        /\ ranked' = <<>>
        /\ best' = <<>>
        /\ UNCHANGED <<store, experiment, buffers, committed, added, cohorts>>
        /\ IF Len(group.df.rows) < 2
           THEN err' = "none" /\ series' = NoSeries
           ELSE IF group.on_param \notin Range(group.df.columns)
           THEN err' = "KeyError" /\ series' = NoSeries
           ELSE /\ err' = "none"
                /\ series' = [plotted |-> TRUE, points |-> Plotted(group)]

(***************************************************************************)
(* The Cohort Builder on an existing database.  Each experiment of the     *)
(* store comes from one earlier session: add_experiment, add_dict_parameter*)
(* of some of the names below, add_dict_score of 'acc' scores, tidy.  The  *)
(* history variables cover the calls of the current Wardrobe only.         *)
(***************************************************************************)
MaxCohortExperiments == 2

\* a name the session did not give
Absent == <<>>

CohortNames == <<exp_name, lr, depth, wd>>

SessionParameters ==
    {(exp_name :> a) @@ (lr :> b) @@ (depth :> c) @@ (wd :> d) :
        a \in {Absent, S1}, b \in {Absent, S10, S2}, c \in {S1, S2},
        d \in {Absent, S2}}

SessionScores == {<<>>, <<1>>, <<3>>}

Sessions == [params : SessionParameters, scores : SessionScores]

\* the (name, value) items of a session's dict, in the order of CohortNames
SessionItems(session) ==
    LET Given(n) == session.params[n] # Absent
        names == SelectSeq(CohortNames, Given)
    IN  [i \in 1..Len(names) |-> <<names[i], session.params[names[i]]>>]

ParameterTable(sessions) ==
    LET flat == Flatten([e \in 1..Len(sessions) |->
                    [i \in 1..Len(SessionItems(sessions[e])) |->
                        <<e, SessionItems(sessions[e])[i]>>]])
    IN  [k \in 1..Len(flat) |->
            [id_parameter |-> k,
             parameter_name |-> flat[k][2][1],
             parameter |-> flat[k][2][2],
             experiment |-> flat[k][1]]]

ScoreTable(sessions) ==
    LET flat == Flatten([e \in 1..Len(sessions) |->
                    [i \in 1..Len(sessions[e].scores) |->
                        <<e, sessions[e].scores[i]>>]])
    IN  [k \in 1..Len(flat) |->
            [id_score |-> k, type_score |-> "acc", score |-> flat[k][2],
             experiment |-> flat[k][1]]]

InitCohort ==
    /\ \E n \in 1..MaxCohortExperiments :
          \E sessions \in [1..n -> Sessions] :
              /\ Experiment = [i \in 1..n |->
                     [id_experiment |-> i, experiment_name |-> "Mnist"]]
              /\ Parameter = ParameterTable(sessions)
              /\ Score = ScoreTable(sessions)
              /\ committed = 1..n
              /\ added = [i \in 1..n |-> NoAdded]
    /\ Output = <<>>
    /\ experiment = None
    /\ parameter = <<>>
    /\ output = <<>>
    /\ score = <<>>
    /\ op = Call("__init__", <<>>)
    /\ err = "none"
    /\ queries = 0
    /\ ranked = <<>>
    /\ best = <<>>
    /\ cohorts = <<>>
    /\ series = NoSeries

OnParams == {lr}

NextCohort ==
    \/ \E p \in OnParams, t \in OnScores : plot_by_param(p, t)
    \/ \E i \in DOMAIN cohorts : plot(i)

SpecCohort == InitCohort /\ [][NextCohort]_vars

(***************************************************************************)
(* The Cohort Summarizer on any cohort: a RunGroup built of a frame with   *)
(* the columns a cohort has (a fixed parameter, the on_param column).      *)
(***************************************************************************)
MaxPlotRows == 3

PlotValues == {S1, S10, S2}
PlotScores == {1, 2, 4}

PlotFrames ==
    UNION {{[columns |-> <<depth, lr>>,
             rows |-> [i \in 1..k |->
                         [id_experiment |-> i,
                          experiment_name |-> "Mnist",
                          score |-> f[i][2],
                          cell |-> (depth :> S1) @@ (lr :> f[i][1])]]] :
              f \in [1..k -> PlotValues \X PlotScores]} :
           k \in 1..MaxPlotRows}

InitPlot ==
    /\ \E df \in PlotFrames : cohorts = <<RunGroup(df, lr)>>
    /\ Experiment = <<>>
    /\ Parameter = <<>>
    /\ Output = <<>>
    /\ Score = <<>>
    /\ experiment = None
    /\ parameter = <<>>
    /\ output = <<>>
    /\ score = <<>>
    /\ committed = {}
    /\ added = <<>>
    /\ op = Call("RunGroup", <<>>)
    /\ err = "none"
    /\ queries = 0
    /\ ranked = <<>>
    /\ best = <<>>
    /\ series = NoSeries

NextPlot == \E i \in DOMAIN cohorts : plot(i)

SpecPlot == InitPlot /\ [][NextPlot]_vars

(***************************************************************************)
(* Properties of the Recorder and the Ranker.                              *)
(***************************************************************************)
IsBestScores == op.name = "get_best_scores" /\ err = "none"
Mode == op.args[1]
OnScore == op.args[2]
NBest == op.args[3]

\* the experiment a yielded record is about
RecordId(rec) == rec.Experiment[1].id_experiment

\* the experiments begun and then replaced by add_experiment before any tidy
Discarded ==
    {e \in 1..Len(Experiment) : e \notin committed /\ e # experiment}

\* C1 (as claimed): every row of every record get_best_scores yields belongs
\* to an experiment whose tidy() has returned.
C1_VisibleOnlyAfterCommit ==
    \A i \in DOMAIN best :
        /\ \A r \in Range(best[i].Experiment) : r.id_experiment \in committed
        /\ \A r \in Range(best[i].Parameter) \cup Range(best[i].Output)
                    \cup Range(best[i].Score) : r.experiment \in committed

\* C2: with n_best = k > 0, get_best_scores('max', m, k) selects min(k, count)
\* distinct score rows of type m, in non-increasing order of score, no row
\* left out being larger than a selected one, and yields at each rank the
\* record of the experiment owning the row selected there; 'min' likewise
\* with the smallest, in non-decreasing order.
C2_BestScoresRanked ==
    (IsBestScores /\ NBest > 0) =>
        LET rows == ScoresOfType(OnScore)
            k == IF NBest < Len(rows) THEN NBest ELSE Len(rows)
            Better(a, b) == IF Mode = "max" THEN a >= b ELSE a <= b
        IN  /\ Len(ranked) = k
            /\ Len(best) = k
            /\ \A i \in 1..k : Score[ranked[i]] \in Range(rows)
            /\ \A i, j \in 1..k : i # j => ranked[i] # ranked[j]
            /\ \A i, j \in 1..k :
                  i < j => Better(Score[ranked[i]].score, Score[ranked[j]].score)
            /\ \A r \in Range(rows) :
                  r.id_score \notin Range(ranked) =>
                      \A i \in 1..k : Better(Score[ranked[i]].score, r.score)
            /\ \A i \in 1..k :
                  /\ best[i].Experiment = <<Experiment[Score[ranked[i]].experiment]>>
                  /\ Score[ranked[i]] \in Range(best[i].Score)

\* C2 witness: 'max' with a limit below the count: two tied rows selected
\* and a smaller one left out.
C2_Witness ==
    /\ IsBestScores
    /\ Mode = "max"
    /\ NBest = 2
    /\ Len(ranked) = 2
    /\ Score[ranked[1]].score = Score[ranked[2]].score
    /\ \E r \in Range(ScoresOfType(OnScore)) : r.score < Score[ranked[2]].score

\* the experiments that have a score of type m
ExperimentsHaving(m) == {r.experiment : r \in Range(ScoresOfType(m))}

\* C3 (as claimed): with a limit at least the number of experiments having
\* the score, get_best_scores yields each of them exactly once.
C3_EachExperimentOnce ==
    (IsBestScores /\ NBest >= Cardinality(ExperimentsHaving(OnScore))) =>
        /\ Len(best) = Cardinality(ExperimentsHaving(OnScore))
        /\ \A i, j \in DOMAIN best : i # j => RecordId(best[i]) # RecordId(best[j])

\* what the record holds, without the assigned ids
ParametersIn(rec) ==
    [i \in DOMAIN rec.Parameter |->
        <<rec.Parameter[i].parameter_name, rec.Parameter[i].parameter>>]

OutputsIn(rec) ==
    [i \in DOMAIN rec.Output |->
        <<rec.Output[i].type_output, rec.Output[i].path_output>>]

ScoresIn(rec) ==
    [i \in DOMAIN rec.Score |->
        <<rec.Score[i].type_score, rec.Score[i].score>>]

\* C5 (as claimed): the record of a committed experiment holds exactly the
\* parameters, outputs and scores that were added, each parameter with the
\* value that was given.
C5_RoundTripExact ==
    \A i \in DOMAIN best :
        LET e == RecordId(best[i])
        IN  e \in committed =>
              /\ [j \in DOMAIN best[i].Parameter |->
                    <<best[i].Parameter[j].parameter_name,
                      PyStr(best[i].Parameter[j].parameter)>>] = added[e].parameter
              /\ OutputsIn(best[i]) = added[e].output
              /\ ScoresIn(best[i]) = added[e].score

\* C5 (amended): the record of a committed experiment holds exactly the
\* outputs and scores that were added and, for each parameter added, its
\* name with the text str(value) of its value, whatever else the store holds.
C5_RoundTripAsText ==
    \A i \in DOMAIN best :
        LET e == RecordId(best[i])
        IN  e \in committed =>
              /\ ParametersIn(best[i]) =
                    [j \in DOMAIN added[e].parameter |->
                        <<added[e].parameter[j][1],
                          CharFieldAdapt(added[e].parameter[j][2])>>]
              /\ OutputsIn(best[i]) = added[e].output
              /\ ScoresIn(best[i]) = added[e].score

\* C5 witness: the record of a committed experiment that was given an int
\* parameter, from a store that also holds a parameter of another experiment.
C5_Witness ==
    \E i \in DOMAIN best :
        LET e == RecordId(best[i])
        IN  /\ e \in committed
            /\ \E j \in DOMAIN added[e].parameter : added[e].parameter[j][2].t = "int"
            /\ \E r \in Range(Parameter) : r.experiment # e

\* C7: a mode other than 'min' and 'max' makes get_best_scores raise
\* ValueError, yield no record and run no query.
C7_InvalidModeRaises ==
    (op.name = "get_best_scores" /\ Mode \notin {"min", "max"}) =>
        /\ err = "ValueError"
        /\ best = <<>>
        /\ ranked = <<>>
        /\ queries = 0

\* C7 witness: an unrecognised mode on a store that holds scores of the type
\* asked for.
C7_Witness ==
    /\ op.name = "get_best_scores"
    /\ Mode = "best"
    /\ err = "ValueError"
    /\ Len(ScoresOfType(OnScore)) >= 2

\* every score row of type OnScore selected once, in the order of the mode,
\* with the record of its experiment at its rank
AllSelected ==
    LET rows == ScoresOfType(OnScore)
        Better(a, b) == IF Mode = "max" THEN a >= b ELSE a <= b
    IN  /\ Len(ranked) = Len(rows)
        /\ Len(best) = Len(rows)
        /\ Range(ranked) = {r.id_score : r \in Range(rows)}
        /\ \A i, j \in DOMAIN ranked :
              i < j => Better(Score[ranked[i]].score, Score[ranked[j]].score)
        /\ \A i \in DOMAIN best :
              best[i].Experiment = <<Experiment[Score[ranked[i]].experiment]>>

\* C12 (as claimed): get_best_scores with a limit of 0, a negative limit or
\* the limit omitted (the default -1) yields a record for every score row
\* of type on_score, as a limit of at least their number does.
C12_NonPositiveLimitIsAll ==
    (IsBestScores /\ NBest <= 0) => AllSelected

\* C12 (amended): with a negative limit or the limit omitted (the default
\* -1) get_best_scores yields a record for every score row of type
\* on_score, in the order of the mode; with a limit of 0 it yields nothing.
C12_NegativeLimitIsAll ==
    /\ (IsBestScores /\ NBest < 0) => AllSelected
    /\ (IsBestScores /\ NBest = 0) => (ranked = <<>> /\ best = <<>>)

\* C12 witness: a negative limit other than the default on a store holding
\* the most rows of the type asked for, all of them selected.
C12_Witness ==
    /\ IsBestScores
    /\ NBest < -1
    /\ Len(ScoresOfType(OnScore)) = MaxScores
    /\ Len(ranked) = MaxScores

AddCalls ==
    {"add_parameter", "add_output", "add_score",
     "add_dict_parameter", "add_dict_output", "add_dict_score"}

BuffersEmpty == parameter = <<>> /\ output = <<>> /\ score = <<>>

\* C8 (as claimed): with no experiment in progress tidy and every add-* call
\* raise and change neither the store nor the buffers; a tidy that returns
\* leaves the buffers empty and no experiment in progress.
C8_NoExperimentRaises ==
    [][/\ (experiment = None /\ op'.name \in AddCalls \cup {"tidy"}) =>
              (err' # "none" /\ UNCHANGED <<store, buffers>>)
       /\ (op'.name = "tidy" /\ err' = "none") =>
              (BuffersEmpty' /\ experiment' = None)]_vars

\* C8 (amended): with no experiment in progress tidy and every add-* call
\* given at least one item raise and change neither the store nor the
\* buffers (a bulk add of an empty mapping returns without an error, and
\* changes nothing either); a tidy that returns leaves the buffers empty and
\* no experiment in progress.
C8_NoExperimentRaisesGivenItems ==
    [][/\ (experiment = None /\ op'.name = "tidy") =>
              (err' # "none" /\ UNCHANGED <<store, buffers>>)
       /\ (experiment = None /\ op'.name \in AddCalls) =>
              /\ UNCHANGED <<store, buffers>>
              /\ op'.args[1] > 0 => err' # "none"
       /\ (op'.name = "tidy" /\ err' = "none") =>
              (BuffersEmpty' /\ experiment' = None)]_vars

\* C8 witness: an add-* call refused after a commit, before the next
\* add_experiment.
C8_Witness ==
    /\ experiment = None
    /\ committed # {}
    /\ op.name \in AddCalls
    /\ err = "IntegrityError"
    /\ Rows > 0

\* C9 (as claimed): an experiment replaced by add_experiment before its tidy
\* has no row left in the buffers and no record yielded by get_best_scores.
C9_ReplacedIsDiscarded ==
    \A e \in Discarded :
        /\ \A r \in Range(parameter) \cup Range(output) \cup Range(score) :
              r.experiment # e
        /\ \A i \in DOMAIN best : RecordId(best[i]) # e

(***************************************************************************)
(* Properties of the Cohort Builder and the Cohort Summarizer.             *)
(***************************************************************************)
IsPlotByParam == op.name = "plot_by_param"
OnParam == op.args[1]
TargetScore == op.args[2]

\* the experiment e was recorded with parameter k of value v
Has(e, k, v) ==
    \E r \in Range(Parameter) :
        r.experiment = e /\ r.parameter_name = k /\ r.parameter = v

FixedNames == RecordedNames \ {OnParam, exp_name}

\* the combinations of recorded values of the fixed parameters
Combinations ==
    {c \in [FixedNames -> {r.parameter : r \in Range(Parameter)}] :
        \A k \in FixedNames : \E e \in 1..Len(Experiment) : Has(e, k, c[k])}

\* the experiments having the target score that match the combination c
Matching(c) ==
    {e \in ExperimentsHaving(TargetScore) : \A k \in FixedNames : Has(e, k, c[k])}

CohortIds(group) == {r.id_experiment : r \in Range(group.df.rows)}

\* C4 (as claimed): when both names _get_params removes were recorded, there
\* is a fixed parameter, some experiment has the target score and every
\* experiment having it has the varying parameter, plot_by_param raises
\* nothing and yields exactly one
\* cohort per combination of fixed-parameter values matched by an experiment
\* having the target score, holding exactly the experiments that match it.
C4_OneCohortPerMatchedCombination ==
    (/\ IsPlotByParam
     /\ GetParamsError(OnParam) = "none"
     /\ FixedNames # {}
     /\ ExperimentsHaving(TargetScore) # {}
     /\ \A e \in ExperimentsHaving(TargetScore) : OnParamRows(e, OnParam) # <<>>)
    => /\ err = "none"
       /\ Len(cohorts) = Cardinality({c \in Combinations : Matching(c) # {}})
       /\ \A c \in Combinations :
             Matching(c) # {} =>
                 \E i \in DOMAIN cohorts :
                     /\ cohorts[i].attrs = c
                     /\ CohortIds(cohorts[i]) = Matching(c)

\* C10 (as claimed): every row of every cohort plot_by_param yields has a
\* column on_param holding the value recorded for its experiment, and a
\* target score of that experiment.
C10_RowsCarryVaryingParam ==
    IsPlotByParam =>
        \A i \in DOMAIN cohorts :
            \A r \in Range(cohorts[i].df.rows) :
                /\ OnParam \in Range(cohorts[i].df.columns)
                /\ Has(r.id_experiment, OnParam, r.cell[OnParam])
                /\ \E sc \in Range(ScoresOfType(TargetScore)) :
                      sc.experiment = r.id_experiment /\ sc.score = r.score

\* C11 (as claimed): in every store where on_param occurs as a parameter
\* name, whether or not "exp_name" was ever recorded, _get_params(on_param)
\* raises nothing: plot_by_param goes past its first query, the one of
\* _get_params, to the query of _get_experiments_score.
C11_GetParamsSucceeds ==
    (IsPlotByParam /\ OnParam \in RecordedNames) =>
        /\ GetParamsError(OnParam) = "none"
        /\ queries >= 2

RECURSIVE SumOver(_, _)
\* the sum of the scores of the rows of index in idx
SumOver(rows, idx) ==
    IF idx = {} THEN 0
    ELSE LET j == CHOOSE x \in idx : TRUE
         IN  rows[j].score + SumOver(rows, idx \ {j})

====
